---------------------------- MODULE Spec2Model ----------------------------
(***************************************************************************)
(* State-machine model of the paint-board server (server.mjs): the          *)
(* WebSocket upgrade handler, the binary frame handler, the heartbeat and   *)
(* paint-rate timers, the close handler and the token endpoint.             *)
(*                                                                          *)
(* Every handler of the program runs to completion on the event loop, so    *)
(* each is one action.  Date.now() is the variable now; it is read once per *)
(* handler run (a handler is synchronous and far shorter than one clock     *)
(* step of the model).                                                      *)
(***************************************************************************)
EXTENDS Integers, Sequences, FiniteSets, TLC

(***************************************************************************)
(* Configuration (config.mjs).  Every value is read from config.json; the   *)
(* model fixes one small configuration: a 2 x 2 board, a ceiling of one     *)
(* connection per class and address, one packet per second, a cooldown as   *)
(* long as the rate window, and the default heartbeat times.                *)
(***************************************************************************)
WIDTH == 2
HEIGHT == 2
CHANNELS == 3
BOARD_SIZE == WIDTH * HEIGHT * CHANNELS

maxReadWritePerIP == 1
maxReadOnlyPerIP == 1
maxWriteOnlyPerIP == 1
packetsPerSecond == 1
cooldownMs == 1000
pingInterval == 30000
pingTimeout == 10000

\* Constants written in server.mjs itself.
RateWindowMs == 1000
RateSampleMs == 1000
UidLimit == 16777216

\* Opcodes and result codes (server.mjs).
OP_PONG == 251
OP_PING == 252
OP_DRAW == 254
OP_TIMED == 240
OP_BROADCAST == 250
OP_RESULT == 255
OP_RATE == 254
RES_SUCCESS == 239
RES_COOLDOWN == 238
RES_LOOKUP_FAILED == 237
RES_OUT_OF_BOUNDS == 236
\* A length test one byte short of the 29 the handler asks for; C7 tells it
\* from DRAW_PAYLOAD
DRAW_PAYLOAD_SHORT == 2 + 2 + 3 + 3 + 16 + 2
\* the length the 0xfe branch tests for: offset + 29 > buf.length
DRAW_PAYLOAD == 29
\* the bytes the 0xfe branch reads: x(2) y(2) r g b uid(3) token(16) id(4)
DRAW_READ == 2 + 2 + 3 + 3 + 16 + 4
\* REQUIRED_LEN = 4 + 4 + 2 + 2 + 1 + 1 + 1
TIMED_PAYLOAD == 15

CLOSE_GOING_AWAY == 1001
CLOSE_PROTOCOL == 1002
CLOSE_POLICY == 1008

(***************************************************************************)
(* Bounds of the model.                                                     *)
(***************************************************************************)
MaxConns == 3
MaxFrames == 2
MaxSteps == 2
MaxPaint == 2
MaxCount == 2

Slots == 1..MaxConns
IPs == {"10.0.0.1", "10.0.0.2"}
UIDs == {1, 2}
NoToken == "none"
NewTokens == {"uuid-a"}

\* The clock advances in steps of half the rate window; Date.now() at start-up
\* is larger than every configured duration.
Step == RateWindowMs \div 2
StartTime == 100 * RateWindowMs

Min(a, b) == IF a < b THEN a ELSE b

(***************************************************************************)
(* Buffer reads and writes (Node's Buffer API as server.mjs uses it).       *)
(* Offsets are 0-based as in the source; sequences are 1-based.             *)
(***************************************************************************)
readUInt8(buf, off) == buf[off + 1]
readUInt16LE(buf, off) == buf[off + 1] + 256 * buf[off + 2]
readUInt24LE(buf, off) == buf[off + 1] + 256 * buf[off + 2] + 65536 * buf[off + 3]
readUInt32LE(buf, off) ==
    buf[off + 1] + 256 * buf[off + 2] + 65536 * buf[off + 3] + 16777216 * buf[off + 4]

writeUInt8(v) == << v % 256 >>
writeUInt16LE(v) == << v % 256, (v \div 256) % 256 >>
writeUInt24LE(v) == << v % 256, (v \div 256) % 256, (v \div 65536) % 256 >>
writeUInt32LE(v) ==
    << v % 256, (v \div 256) % 256, (v \div 65536) % 256, (v \div 16777216) % 256 >>


(***************************************************************************)
(* Program state.                                                           *)
(***************************************************************************)
VARIABLES
    check,          \* TOKEN_CFG.check, read from config.json at start-up
    clockBit31,     \* bit 31 of Date.now(): the sign of Date.now() & 0xFFFFFFFF
    now,            \* Date.now(), offset so that it fits the model's integers
    tokens,         \* the tokens table: uid -> token, NoToken when there is no row
    paintBoard,     \* the Buffer of BOARD_SIZE bytes (0-based index i is paintBoard[i+1])
    ipConnCounts,   \* the Map ip -> {rw, ro, wo}
    clients,        \* the Set of ws objects
    sockets,        \* the ws objects that exist: slot -> readyState, _meta and timer
    paintCount,     \* the paint-rate counter
    rateTimer,      \* when the paint-rate interval last fired (or was started)
    sent,           \* per ws object: the frames the last handler run delivered to it
    crashed,        \* an uncaught exception has ended the process
    inbox           \* the message of the current 'message' event (done: its handler
                    \* has run), or NoMessage

vars == << check, clockBit31, now, tokens, paintBoard, ipConnCounts, clients,
           sockets, paintCount, rateTimer, sent, crashed, inbox >>

NoFrames == [s \in Slots |-> << >>]
NoMessage == [c |-> 0, m |-> [frames |-> << >>, cut |-> 0, fails |-> {}], done |-> TRUE]

\* The event loop is free to run the next handler: the last one has returned
\* and the frames it queued have left the sockets
Idle == ~crashed /\ inbox = NoMessage /\ sent = NoFrames
Live == DOMAIN sockets
Open(ws) == {s \in DOMAIN ws : ws[s].readyState = "OPEN"}

\* Buffer.alloc(BOARD_SIZE, 0xff)
InitBoard == [i \in 1..BOARD_SIZE |-> 255]

Init ==
    /\ check \in BOOLEAN
    /\ clockBit31 \in BOOLEAN
    /\ now = StartTime
    /\ tokens = [u \in UIDs |-> NoToken]
    /\ paintBoard = InitBoard
    /\ ipConnCounts = << >>
    /\ clients = {}
    /\ sockets = << >>
    /\ paintCount = 0
    /\ rateTimer = StartTime
    /\ sent = NoFrames
    /\ crashed = FALSE
    /\ inbox = NoMessage

(***************************************************************************)
(* The clock.                                                               *)
(***************************************************************************)
AdvanceTime(d) ==
    /\ Idle
    /\ UNCHANGED << crashed, inbox >>
    /\ now' = now + d
    /\ sent' = NoFrames
    /\ UNCHANGED << check, clockBit31, tokens, paintBoard, ipConnCounts, clients,
                    sockets, paintCount >>
    /\ UNCHANGED rateTimer

(***************************************************************************)
(* POST /api/auth/gettoken                                                  *)
(***************************************************************************)
check_access_key(uid, access_key) == TRUE

GetToken(uid, newToken) ==
    /\ Idle
    /\ UNCHANGED << crashed, inbox >>
    /\ uid >= 0 /\ uid < UidLimit /\ check_access_key(uid, "")
    /\ tokens' = IF tokens[uid] = NoToken
                 THEN [tokens EXCEPT ![uid] = newToken]
                 ELSE tokens
    /\ sent' = NoFrames
    /\ UNCHANGED << check, clockBit31, now, paintBoard, ipConnCounts, clients,
                    sockets, paintCount, rateTimer >>

(***************************************************************************)
(* wsServer.on('upgrade') with wss.on('connection') and startHeartbeat       *)
(***************************************************************************)
ZeroCounts == [rw |-> 0, ro |-> 0, wo |-> 0]

\* ipConnCounts.get(ip) || { rw: 0, ro: 0, wo: 0 }
getCounts(m, ip) == IF ip \in DOMAIN m THEN m[ip] ELSE ZeroCounts

\* Map.set
mapSet(m, k, v) == [x \in DOMAIN m \cup {k} |-> IF x = k THEN v ELSE m[x]]

\* The three limit tests of the handler.  Each one only logs a warning (its
\* socket.end('HTTP/1.1 429 ...') is commented out): the handler goes on.
limitWarned(counts, readonly, writeonly) ==
    \/ ~readonly /\ ~writeonly /\ counts.rw >= maxReadWritePerIP
    \/ readonly /\ counts.ro >= maxReadOnlyPerIP
    \/ writeonly /\ counts.wo >= maxWriteOnlyPerIP

\* counts.rw++ / counts.ro++ / counts.wo++
incCounts(counts, readonly, writeonly) ==
    [rw |-> counts.rw + (IF ~readonly /\ ~writeonly THEN 1 ELSE 0),
     ro |-> counts.ro + (IF readonly THEN 1 ELSE 0),
     wo |-> counts.wo + (IF writeonly THEN 1 ELSE 0)]

\* ws._meta as the upgrade callback builds it, and startHeartbeat's first lines
newSocket(ip, readonly, writeonly, t) ==
    [ip |-> ip, readonly |-> readonly, writeonly |-> writeonly,
     packets |-> << >>, uidCooldown |-> << >>,
     lastPong |-> t, lastPing |-> t,
     readyState |-> "OPEN", timer |-> t, closeCode |-> 0]

FreeSlots == Slots \ Live
NextSlot == CHOOSE s \in FreeSlots : \A r \in FreeSlots : s <= r

\* outcome: "ok" (the handshake completes and the callback runs), "abort"
\* (wss.handleUpgrade aborts the handshake and never calls back), "badurl"
\* (new URL(...) throws: the catch answers 400).
Upgrade(ip, readonly, writeonly, outcome) ==
    /\ Idle
    /\ UNCHANGED << crashed, inbox >>
    /\ sent' = NoFrames
    /\ IF outcome = "badurl"
       THEN UNCHANGED << ipConnCounts, sockets, clients >>
       ELSE LET counts == getCounts(ipConnCounts, ip)
                inc == incCounts(counts, readonly, writeonly)
            IN /\ inc.rw <= MaxCount /\ inc.ro <= MaxCount /\ inc.wo <= MaxCount
               /\ ipConnCounts' = mapSet(ipConnCounts, ip, inc)
               /\ IF outcome = "ok"
                  THEN /\ FreeSlots # {}
                       /\ sockets' = mapSet(sockets, NextSlot,
                                            newSocket(ip, readonly, writeonly, now))
                       /\ clients' = clients \cup {NextSlot}
                  ELSE UNCHANGED << sockets, clients >>
    /\ UNCHANGED << check, clockBit31, now, tokens, paintBoard, paintCount, rateTimer >>

(***************************************************************************)
(* ws.on('close'): decIp, clients.delete, and startHeartbeat's clearInterval *)
(***************************************************************************)
decIp(m, ip, meta) ==
    IF ip \notin DOMAIN m THEN m
    ELSE mapSet(m, ip,
           [rw |-> m[ip].rw - (IF ~meta.readonly /\ ~meta.writeonly THEN 1 ELSE 0),
            ro |-> m[ip].ro - (IF meta.readonly THEN 1 ELSE 0),
            wo |-> m[ip].wo - (IF meta.writeonly THEN 1 ELSE 0)])

mapDelete(m, k) == [x \in DOMAIN m \ {k} |-> m[x]]

\* The 'close' event of a ws object: the peer went away, or the closing
\* handshake that ws.close() started has ended.
OnClose(c) ==
    /\ Idle
    /\ UNCHANGED << crashed, inbox >>
    /\ c \in Live
    /\ ipConnCounts' = decIp(ipConnCounts, sockets[c].ip, sockets[c])
    /\ clients' = clients \ {c}
    /\ sockets' = mapDelete(sockets, c)
    /\ sent' = NoFrames
    /\ UNCHANGED << check, clockBit31, now, tokens, paintBoard, paintCount, rateTimer >>

(***************************************************************************)
(* Sending.  ws.send on a socket that is not OPEN delivers nothing; the     *)
(* broadcasts test readyState themselves.  A handler run works on the       *)
(* record H: pb (paintBoard), ws (sockets), out (frames delivered),         *)
(* pc (paintCount), threw (an exception left the handler uncaught).         *)
(***************************************************************************)
wsSend(H, c, frame) ==
    IF c \in DOMAIN H.ws /\ H.ws[c].readyState = "OPEN"
    THEN [H EXCEPT !.out[c] = Append(@, frame)]
    ELSE H

\* ws.close(code, reason): starts the closing handshake of an OPEN socket
wsClose(H, c, code) ==
    IF H.ws[c].readyState = "OPEN"
    THEN [H EXCEPT !.ws[c].readyState = "CLOSING", !.ws[c].closeCode = code]
    ELSE H

\* A broadcast that does not look at the class of a client; C5 tells it
\* from eligible
eligibleAnyClass(H, cl) == {s \in cl : H.ws[s].readyState = "OPEN"}

\* for (const c of clients) if (c.readyState === c.OPEN && !c._meta.writeonly) c.send(buf)
eligible(H, cl) == {s \in cl : H.ws[s].readyState = "OPEN" /\ ~H.ws[s].writeonly}

sendToAll(H, cl, frame) ==
    [H EXCEPT !.out = [s \in Slots |-> IF s \in eligible(H, cl)
                                        THEN Append(H.out[s], frame)
                                        ELSE H.out[s]]]

\* setPixel: the board after the call, and the value returned
\* A bounds test that lets x = WIDTH and y = HEIGHT through; C16 tells it from
\* setPixelOk
setPixelOkInclusive(x, y) == ~(x < 0 \/ x > WIDTH \/ y < 0 \/ y > HEIGHT)

setPixelOk(x, y) == ~(x < 0 \/ x >= WIDTH \/ y < 0 \/ y >= HEIGHT)

\* An index that takes the rows for the columns; C15 tells it from pixelIndex
pixelIndexTransposed(x, y) == (x * HEIGHT + y) * CHANNELS

pixelIndex(x, y) == (y * WIDTH + x) * CHANNELS

setPixel(pb, x, y, r, g, b) ==
    IF ~setPixelOk(x, y) THEN pb
    ELSE LET idx == pixelIndex(x, y)
         IN [i \in DOMAIN pb |-> IF i = idx + 1 THEN r
                                 ELSE IF i = idx + 2 THEN g
                                 ELSE IF i = idx + 3 THEN b
                                 ELSE pb[i]]

drawFrame(x, y, r, g, b) ==
    << OP_BROADCAST >> \o writeUInt16LE(x) \o writeUInt16LE(y)
        \o writeUInt8(r) \o writeUInt8(g) \o writeUInt8(b)

\* broadcastDraw: the 8-byte frame to every eligible client, then paintCount++
broadcastDraw(H, cl, x, y, r, g, b) ==
    [sendToAll(H, cl, drawFrame(x, y, r, g, b)) EXCEPT !.pc = @ + 1]

resultFrame(id, code) == << OP_RESULT >> \o writeUInt32LE(id) \o writeUInt8(code)

\* A result that is kept from a write-only originator; C21 tells it from
\* sendResult
sendResultUnlessWriteOnly(H, c, id, code) ==
    IF H.ws[c].writeonly THEN H ELSE wsSend(H, c, resultFrame(id, code))

sendResult(H, c, id, code) == wsSend(H, c, resultFrame(id, code))

(***************************************************************************)
(* ws.on('message'): one pass of the while loop over the message buffer.    *)
(* The result is the handler state, the new offset, and whether the handler *)
(* returned (stop) instead of going round the loop again.                   *)
(***************************************************************************)
\* Date.now() & 0xFFFFFFFF is a signed 32-bit value: negative when bit 31 of
\* the clock is set.  t is the clock without that bit.
serverTsOf(t, bit31) == IF bit31 THEN t - 2147483647 - 1 ELSE t

\* meta.uidCooldown.get(uid) || 0
lastTimeOf(cd, uid) == IF uid \in DOMAIN cd THEN cd[uid] ELSE 0

\* A cooldown test that still rejects when exactly cooldownMs have passed;
\* C4 tells it from coolingDown
coolingDownInclusive(t, lastTime) == t - lastTime <= cooldownMs

\* Date.now() - lastTime < TOKEN_CFG.cooldownMs
coolingDown(t, lastTime) == t - lastTime < cooldownMs

\* meta.packets.filter(t => Date.now() - t < 1000)
prunePackets(packets, t) == SelectSeq(packets, LAMBDA p : t - p < RateWindowMs)

\* meta.packets.filter(...).length > WS_CFG.packetsPerSecond
rateExceeded(packets, t) == Len(prunePackets(packets, t)) > packetsPerSecond

timedEcho(id, clientTs, serverTs, x, y, r, g, b) ==
    << OP_TIMED >> \o writeUInt32LE(id) \o writeUInt32LE(clientTs)
        \o writeUInt32LE(serverTs) \o writeUInt16LE(x) \o writeUInt16LE(y)
        \o writeUInt8(r) \o writeUInt8(g) \o writeUInt8(b)

\* The 0xF0 branch, after the type byte (offset o)
timedStep(H, cl, c, buf, o, t, bit31) ==
    IF o + TIMED_PAYLOAD > Len(buf)
    THEN [h |-> wsClose(H, c, CLOSE_PROTOCOL), off |-> o, stop |-> TRUE]
    ELSE LET id == readUInt32LE(buf, o)
             clientTs == readUInt32LE(buf, o + 4)
             x == readUInt16LE(buf, o + 8)
             y == readUInt16LE(buf, o + 10)
             r == readUInt8(buf, o + 12)
             g == readUInt8(buf, o + 13)
             b == readUInt8(buf, o + 14)
             serverTs == serverTsOf(t, bit31)
         IN IF serverTs < 0
            \* outBuf.writeUInt32LE(serverTs, 9) throws ERR_OUT_OF_RANGE: the catch
            \* closes the socket and returns
            THEN [h |-> wsClose(H, c, CLOSE_PROTOCOL), off |-> o + TIMED_PAYLOAD,
                  stop |-> TRUE]
            ELSE [h |-> [sendToAll(H, cl, timedEcho(id, clientTs, serverTs, x, y, r, g, b))
                            EXCEPT !.pc = @ + 1],
                  off |-> o + TIMED_PAYLOAD, stop |-> FALSE]

\* The 0xfe branch from the cooldown test on (lines 310-323)
drawApply(H, cl, c, t, x, y, r, g, b, uid, id) ==
    IF coolingDown(t, lastTimeOf(H.ws[c].uidCooldown, uid))
    THEN sendResult(H, c, id, RES_COOLDOWN)
    ELSE LET H1 == [H EXCEPT !.ws[c].uidCooldown = mapSet(@, uid, t)]
         IN IF ~setPixelOk(x, y)
            THEN sendResult(H1, c, id, RES_OUT_OF_BOUNDS)
            ELSE sendResult(
                   broadcastDraw([H1 EXCEPT !.pb = setPixel(@, x, y, r, g, b)],
                                 cl, x, y, r, g, b),
                   c, id, RES_SUCCESS)

\* The 0xfe branch, after the type byte (offset o).  dbThrows: getTokenStmt.get throws.
drawStep(H, cl, c, buf, o, t, dbThrows) ==
    LET H1 == [H EXCEPT !.ws[c].packets = prunePackets(@, t)]
    IN IF rateExceeded(H1.ws[c].packets, t)
       THEN [h |-> wsClose(H1, c, CLOSE_POLICY), off |-> o, stop |-> TRUE]
       ELSE LET H2 == [H1 EXCEPT !.ws[c].packets = Append(@, t)]
            IN IF o + DRAW_PAYLOAD > Len(buf)
               THEN [h |-> wsClose(H2, c, CLOSE_PROTOCOL), off |-> o, stop |-> TRUE]
               ELSE IF o + DRAW_READ > Len(buf)
               \* buf.readUInt32LE(offset) for the id runs past the buffer and throws
               \* ERR_OUT_OF_RANGE; nothing in the handler catches it
               THEN [h |-> [H2 EXCEPT !.threw = TRUE], off |-> o, stop |-> TRUE]
               ELSE LET x == readUInt16LE(buf, o)
                        y == readUInt16LE(buf, o + 2)
                        r == readUInt8(buf, o + 4)
                        g == readUInt8(buf, o + 5)
                        b == readUInt8(buf, o + 6)
                        uid == readUInt24LE(buf, o + 7)
                        id == readUInt32LE(buf, o + 26)
                    IN [h |-> IF dbThrows
                              THEN sendResult(H2, c, id, RES_LOOKUP_FAILED)
                              ELSE drawApply(H2, cl, c, t, x, y, r, g, b, uid, id),
                        off |-> o + DRAW_READ, stop |-> FALSE]

\* A dispatch that skips a byte it does not know instead of closing; C6 tells
\* it from frameStep
frameStepSkipUnknown(H, cl, c, buf, offset, t, bit31, dbThrows) ==
    LET type == readUInt8(buf, offset)
        o == offset + 1
    IN IF type = OP_PONG
       THEN [h |-> [H EXCEPT !.ws[c].lastPong = t], off |-> o, stop |-> FALSE]
       ELSE IF type = OP_TIMED
       THEN timedStep(H, cl, c, buf, o, t, bit31)
       ELSE IF type # OP_DRAW
       THEN [h |-> H, off |-> o, stop |-> FALSE]
       ELSE drawStep(H, cl, c, buf, o, t, dbThrows)

frameStep(H, cl, c, buf, offset, t, bit31, dbThrows) ==
    LET type == readUInt8(buf, offset)
        o == offset + 1
    IN IF type = OP_PONG
       THEN [h |-> [H EXCEPT !.ws[c].lastPong = t], off |-> o, stop |-> FALSE]
       ELSE IF type = OP_TIMED
       THEN timedStep(H, cl, c, buf, o, t, bit31)
       ELSE IF type # OP_DRAW
       THEN [h |-> wsClose(H, c, CLOSE_PROTOCOL), off |-> o, stop |-> TRUE]
       ELSE drawStep(H, cl, c, buf, o, t, dbThrows)

\* while (offset < buf.length) { ... }; k counts the passes, fails is the set
\* of passes whose token lookup throws
RECURSIVE onMessage(_, _, _, _, _, _, _, _, _)
onMessage(H, cl, c, buf, offset, t, bit31, fails, k) ==
    IF offset >= Len(buf) THEN H
    ELSE LET r == frameStep(H, cl, c, buf, offset, t, bit31, k \in fails)
         IN IF r.stop THEN r.h
            ELSE onMessage(r.h, cl, c, buf, r.off, t, bit31, fails, k + 1)

(***************************************************************************)
(* The clients' side: the frames a client sends, as the handler's parsing   *)
(* lays them out, and the messages the model lets clients send.             *)
(***************************************************************************)
token16(v) == [i \in 1..16 |-> v]

encodeFrame(f) ==
    IF f.op = OP_DRAW
    THEN << OP_DRAW >> \o writeUInt16LE(f.x) \o writeUInt16LE(f.y)
            \o << f.r, f.g, f.b >> \o writeUInt24LE(f.uid) \o token16(f.tok)
            \o writeUInt32LE(f.id)
    ELSE IF f.op = OP_TIMED
    THEN << OP_TIMED >> \o writeUInt32LE(f.id) \o writeUInt32LE(f.cts)
            \o writeUInt16LE(f.x) \o writeUInt16LE(f.y) \o << f.r, f.g, f.b >>
    ELSE << f.op >>

RECURSIVE encodeAll(_)
encodeAll(fs) == IF fs = << >> THEN << >> ELSE encodeFrame(Head(fs)) \o encodeAll(Tail(fs))

\* The message on the wire: the frames one after the other, the last cut bytes missing
encodeMessage(fs, cut) ==
    LET all == encodeAll(fs) IN SubSeq(all, 1, Len(all) - Min(cut, Len(all)))

Frame(op, x, y, r, g, b, uid, tok, id, cts) ==
    [op |-> op, x |-> x, y |-> y, r |-> r, g |-> g, b |-> b,
     uid |-> uid, tok |-> tok, id |-> id, cts |-> cts]

PongFrame == Frame(OP_PONG, 0, 0, 0, 0, 0, 0, 0, 0, 0)
BadFrame == Frame(1, 0, 0, 0, 0, 0, 0, 0, 0, 0)

\* A draw request of identity uid at (x, y); colour and request id follow from them
DrawReq(x, y, uid) ==
    Frame(OP_DRAW, x, y, IF uid = 1 THEN 255 ELSE 0, 128 * (uid - 1), x + 2 * y,
          uid, 170, 256 * uid + 16 * x + y, 0)

TimedReq == Frame(OP_TIMED, 1, 0, 1, 2, 3, 0, 0, 300, 77)

D1 == DrawReq(1, 0, 1)
D2 == DrawReq(1, 0, 2)
OutX == DrawReq(WIDTH, 0, 1)
OutY == DrawReq(0, HEIGHT, 1)

DrawFrames == {D1, D2, OutX, OutY}
ClientFrames == {D1, OutX, OutY, PongFrame, BadFrame, TimedReq}

\* frames, bytes cut off the end, and the passes whose token lookup throws
Msg(fs, cut, fl) == [frames |-> fs, cut |-> cut, fails |-> fl]

\* The cuts of a last frame f: one or two bytes, or all of its payload
Cuts(f) == {1, 2, Len(encodeFrame(f)) - 1}

\* Messages of up to MaxFrames frames: any first frame, then draws by identity 1
\* or an unknown opcode
RECURSIVE FrameSeqs(_)
FrameSeqs(n) ==
    IF n = 1 THEN {<< f >> : f \in ClientFrames}
    ELSE {Append(fs, g) : fs \in FrameSeqs(n - 1), g \in {D1, BadFrame}}

AllFrameSeqs == UNION {FrameSeqs(n) : n \in 1..MaxFrames}

Messages ==
    {Msg(fs, 0, {}) : fs \in AllFrameSeqs}
    \cup {Msg(fs, 0, {1}) : fs \in {q \in AllFrameSeqs : q[1] \in DrawFrames}}
    \cup UNION {{Msg(fs, cut, {}) : cut \in Cuts(fs[Len(fs)])} :
                 fs \in {q \in AllFrameSeqs : q[Len(q)] \in {D1, TimedReq}}}

(***************************************************************************)
(* ws.on('message')                                                         *)
(***************************************************************************)
handlerState ==
    [pb |-> paintBoard, ws |-> sockets, out |-> NoFrames, pc |-> paintCount,
     threw |-> FALSE]

\* A message of client c arrives: its 'message' event is dispatched next.
\* The event is emitted for as long as the ws object exists, OPEN or CLOSING.
Deliver(c, m) ==
    /\ Idle
    /\ c \in Live
    /\ inbox' = [c |-> c, m |-> m, done |-> FALSE]
    /\ sent' = NoFrames
    /\ UNCHANGED << check, clockBit31, now, tokens, paintBoard, ipConnCounts, clients,
                    sockets, paintCount, rateTimer, crashed >>

OnMessage ==
    /\ ~crashed
    /\ ~inbox.done
    /\ LET c == inbox.c
           m == inbox.m
           H == onMessage(handlerState, clients, c, encodeMessage(m.frames, m.cut),
                          0, now, clockBit31, m.fails, 1)
       IN /\ paintBoard' = H.pb
          /\ sockets' = H.ws
          /\ sent' = H.out
          /\ paintCount' = H.pc
          /\ crashed' = H.threw
    /\ inbox' = [inbox EXCEPT !.done = TRUE]
    /\ UNCHANGED << check, clockBit31, now, tokens, ipConnCounts, clients, rateTimer >>

(***************************************************************************)
(* startHeartbeat's setInterval callback                                    *)
(***************************************************************************)
\* meta.lastPong - meta.lastPing > timeout
pingTimedOut(meta) == meta.lastPong - meta.lastPing > pingTimeout

HeartbeatTick(c) ==
    /\ Idle
    /\ UNCHANGED << crashed, inbox >>
    /\ c \in Live
    /\ now - sockets[c].timer >= pingInterval
    /\ LET H0 == handlerState
           H1 == IF pingTimedOut(sockets[c]) THEN wsClose(H0, c, CLOSE_GOING_AWAY) ELSE H0
           H2 == wsSend(H1, c, << OP_PING >>)
           H3 == [H2 EXCEPT !.ws[c].lastPing = now, !.ws[c].timer = now]
       IN /\ sockets' = H3.ws
          /\ sent' = H3.out
    /\ UNCHANGED << check, clockBit31, now, tokens, paintBoard, ipConnCounts, clients,
                    paintCount, rateTimer >>

(***************************************************************************)
(* The paint-rate setInterval callback                                      *)
(***************************************************************************)
rateFrame(count) == << OP_RATE >> \o writeUInt32LE(count)

RateTick ==
    /\ Idle
    /\ UNCHANGED << crashed, inbox >>
    /\ now - rateTimer >= RateSampleMs
    /\ sent' = sendToAll(handlerState, clients, rateFrame(paintCount)).out
    /\ paintCount' = 0
    /\ rateTimer' = now
    /\ UNCHANGED << check, clockBit31, now, tokens, paintBoard, ipConnCounts, clients,
                    sockets >>

(***************************************************************************)
(* The specification                                                        *)
(***************************************************************************)
\* The handler has returned: the sockets write out the frames it queued and
\* the event loop goes on to the next event
Transmit ==
    /\ ~crashed
    /\ inbox.done
    /\ sent # NoFrames \/ inbox # NoMessage
    /\ sent' = NoFrames
    /\ inbox' = NoMessage
    /\ UNCHANGED << check, clockBit31, now, tokens, paintBoard, ipConnCounts, clients,
                    sockets, paintCount, rateTimer, crashed >>

(***************************************************************************)
(* Specifications.  Each one runs the handlers above against clients whose  *)
(* inputs are drawn from the sets it names.                                 *)
(***************************************************************************)
RW == << FALSE, FALSE >>
RO == << TRUE, FALSE >>
WO == << FALSE, TRUE >>
BOTH == << TRUE, TRUE >>
Classes == {RW, RO, WO, BOTH}
Outcomes == {"ok", "abort", "badurl"}
Addr == "10.0.0.1"

\* A client connects from Addr with one of the classes cls, up to n connections
Connect(cls, n) ==
    \E cl \in cls : Cardinality(Live) < n /\ Upgrade(Addr, cl[1], cl[2], "ok")

\* The clock advances by d, up to horizon after start-up
Tick(d, horizon) == now + d <= StartTime + horizon /\ AdvanceTime(d)

\* A client sends one of msgs
Send(msgs) == \E c \in Slots, m \in msgs : paintCount < MaxPaint /\ Deliver(c, m)

Single(fs) == {Msg(<< f >>, 0, {}) : f \in fs}

(* Admission: upgrades of every class and outcome from two addresses, and   *)
(* closes by either side.                                                   *)
AdmissionMessages == Single({BadFrame})

NextAdmission ==
    \/ \E ip \in IPs, cl \in Classes, oc \in Outcomes :
          /\ Cardinality(Live) < MaxConns - 1 \/ oc # "ok"
          /\ Upgrade(ip, cl[1], cl[2], oc)
    \/ \E c \in Slots : OnClose(c)
    \/ Send(AdmissionMessages)
    \/ OnMessage
    \/ Transmit

InitDefault == Init /\ ~check /\ ~clockBit31

SpecAdmission == InitDefault /\ [][NextAdmission]_vars

(* The frame protocol: the client in slot 1 sends every message of          *)
(* Messages; a second client listens.  The clock jumps once, past the rate  *)
(* window and the cooldown.                                                 *)
NextProtocol ==
    \/ Connect({RW, WO}, MaxConns - 1)
    \/ \E c \in Slots : OnClose(c)
    \/ Tick(RateWindowMs, RateWindowMs)
    \/ \E m \in Messages : paintCount < MaxPaint /\ Deliver(1, m)
    \/ OnMessage
    \/ Transmit
    \/ RateTick

InitProtocol == Init /\ ~check

Spec == InitProtocol /\ [][NextProtocol]_vars

(* Cooldown: two clients drawing with two identities, the clock advancing   *)
(* in steps of the cooldown.                                                *)
CooldownMessages ==
    Single({D1, D2, OutX}) \cup {Msg(<< D1, D1 >>, 0, {}), Msg(<< OutX, D1 >>, 0, {})}

NextCooldown ==
    \/ Connect({RW}, MaxConns - 1)
    \/ \E c \in Slots : OnClose(c)
    \/ Tick(Step, MaxSteps * Step)
    \/ Send(CooldownMessages)
    \/ OnMessage
    \/ Transmit
    \/ RateTick

SpecCooldown == InitDefault /\ [][NextCooldown]_vars

(* Broadcast: up to MaxConns clients of the three classes.  The client in    *)
(* slot 1 sends a draw, a timed draw or an unknown opcode; any client may   *)
(* send an unknown opcode, which leaves its socket CLOSING.                 *)
BroadcastMessages == Single({D1, TimedReq, BadFrame})

NextBroadcast ==
    \/ Connect({RW, RO, WO}, MaxConns)
    \/ \E c \in Slots : OnClose(c)
    \/ Tick(RateWindowMs, RateWindowMs)
    \/ \E m \in BroadcastMessages : paintCount < MaxPaint /\ Deliver(1, m)
    \/ \E c \in Slots : Deliver(c, Msg(<< BadFrame >>, 0, {}))
    \/ OnMessage
    \/ Transmit
    \/ RateTick

SpecBroadcast == InitDefault /\ [][NextBroadcast]_vars

(* Heartbeat: one client that may answer pings and may draw, the clock      *)
(* advancing in steps of the ping timeout.                                  *)
MaxBeatSteps == 6
HeartbeatMessages == Single({PongFrame, D1})

NextHeartbeat ==
    \/ Connect({RW}, MaxConns - 2)
    \/ \E c \in Slots : OnClose(c)
    \/ Tick(pingTimeout, MaxBeatSteps * pingTimeout)
    \/ Send(HeartbeatMessages)
    \/ OnMessage
    \/ Transmit
    \/ \E c \in Slots : HeartbeatTick(c)
    \/ RateTick

SpecHeartbeat == InitDefault /\ [][NextHeartbeat]_vars

(* Credentials: either setting of token.check, tokens issued over HTTP,     *)
(* one client drawing with both identities, the lookup failing or not.      *)
CredentialMessages == Single({D1, D2}) \cup {Msg(<< D1 >>, 0, {1})}

NextCredential ==
    \/ \E u \in UIDs, tk \in NewTokens : GetToken(u, tk)
    \/ Connect({RW}, MaxConns - 2)
    \/ \E c \in Slots : OnClose(c)
    \/ Tick(Step, Step)
    \/ Send(CredentialMessages)
    \/ OnMessage
    \/ Transmit

InitCredential == Init /\ ~clockBit31

SpecCredential == InitCredential /\ [][NextCredential]_vars

(***************************************************************************)
(* Properties.  A step of OnMessage is recognised by inbox.done turning     *)
(* TRUE; the message and the connection it came from are inbox.m, inbox.c.  *)
(***************************************************************************)
Handled == ~inbox.done /\ inbox'.done

\* The frames of a sequence whose first byte is op
framesOf(fs, op) == SelectSeq(fs, LAMBDA f : f[1] = op)

\* The live connections from ip of a class
liveOf(ip, readonly, writeonly) ==
    {s \in Live : /\ sockets[s].ip = ip
                  /\ sockets[s].readonly = readonly
                  /\ sockets[s].writeonly = writeonly}

(* C1: for every address and class, an upgrade attempt made while the class *)
(* already has its ceiling of live connections from that address is         *)
(* rejected, so the live connections of a class from one address, and the   *)
(* counter that counts them, never exceed the ceiling.                      *)
C1_AdmissionCeiling ==
    \A ip \in IPs :
        /\ Cardinality(liveOf(ip, FALSE, FALSE)) <= maxReadWritePerIP
        /\ Cardinality(liveOf(ip, TRUE, FALSE)) <= maxReadOnlyPerIP
        /\ Cardinality(liveOf(ip, FALSE, TRUE)) <= maxWriteOnlyPerIP

(* C2: with token.check on and no record in the token store for the         *)
(* identity of a DRAW_REQUEST, the request is answered with a DRAW_RESULT   *)
(* that is not the success code, the raster stays as it was and no          *)
(* DRAW_BROADCAST is sent.                                                  *)
C2_NoRecordRejected ==
    [][(/\ Handled
        /\ check
        /\ Len(inbox.m.frames) = 1 /\ inbox.m.cut = 0
        /\ inbox.m.frames[1].op = OP_DRAW
        /\ tokens[inbox.m.frames[1].uid] = NoToken
        /\ sockets[inbox.c].readyState = "OPEN")
       => (/\ paintBoard' = paintBoard
           /\ \A s \in Slots : framesOf(sent'[s], OP_BROADCAST) = << >>
           /\ Len(framesOf(sent'[inbox.c], OP_RESULT)) = 1
           /\ framesOf(sent'[inbox.c], OP_RESULT)[1]
                 # resultFrame(inbox.m.frames[1].id, RES_SUCCESS))]_vars

(* C3: when the heartbeat timer of an open connection fires and the ping    *)
(* sent at the previous tick has gone unanswered for longer than            *)
(* pingTimeout, the tick closes the connection with the 'Ping timeout'      *)
(* code.                                                                    *)
C3_SilentPeerClosed ==
    [][\A c \in Slots :
         (/\ HeartbeatTick(c)
          /\ sockets[c].readyState = "OPEN"
          /\ sockets[c].lastPong < sockets[c].lastPing
          /\ now - sockets[c].lastPing > pingTimeout)
         => (/\ sockets'[c].readyState # "OPEN"
             /\ sockets'[c].closeCode = CLOSE_GOING_AWAY)]_vars

\* The three channel bytes of the pixel at (x, y)
pixelAt(pb, x, y) ==
    << pb[(y * WIDTH + x) * CHANNELS + 1], pb[(y * WIDTH + x) * CHANNELS + 2],
       pb[(y * WIDTH + x) * CHANNELS + 3] >>

(* C4: a DRAW_REQUEST that passes every other check, arriving on a          *)
(* connection whose last draw by the same identity was accepted at T, is    *)
(* answered with the cooldown code and leaves the raster alone when         *)
(* now - T < cooldownMs, and succeeds when now - T >= cooldownMs; a         *)
(* connection that has no draw of the identity accepts it whatever the      *)
(* other connections hold, and their cooldown maps are not touched.         *)
C4_Cooldown ==
    [][(/\ Handled
        /\ inbox.m \in Single({D1, D2})
        /\ sockets[inbox.c].readyState = "OPEN"
        /\ ~rateExceeded(sockets[inbox.c].packets, now))
       => LET c == inbox.c
              f == inbox.m.frames[1]
              cd == sockets[c].uidCooldown
              accepted ==
                  /\ framesOf(sent'[c], OP_RESULT) = << resultFrame(f.id, RES_SUCCESS) >>
                  /\ pixelAt(paintBoard', f.x, f.y) = << f.r, f.g, f.b >>
                  /\ sockets'[c].uidCooldown[f.uid] = now
              rejected ==
                  /\ sent'[c] = << resultFrame(f.id, RES_COOLDOWN) >>
                  /\ paintBoard' = paintBoard
                  /\ sockets'[c].uidCooldown = cd
          IN /\ f.uid \in DOMAIN cd /\ now - cd[f.uid] < cooldownMs => rejected
             /\ f.uid \in DOMAIN cd /\ now - cd[f.uid] >= cooldownMs => accepted
             /\ f.uid \notin DOMAIN cd => accepted
             /\ \A o \in Live \ {c} : sockets'[o].uidCooldown = sockets[o].uidCooldown]_vars

\* The second draw by identity 1 on a connection, Step after the first, has
\* been refused; the other connection has no draw of that identity
C4_Witness ==
    /\ inbox.done /\ inbox.m = Msg(<< D1 >>, 0, {})
    /\ sent[inbox.c] = << resultFrame(D1.id, RES_COOLDOWN) >>
    /\ now - sockets[inbox.c].uidCooldown[1] = Step
    /\ \E o \in Live \ {inbox.c} : 1 \notin DOMAIN sockets[o].uidCooldown

(* C5: when an open connection submits a DRAW_REQUEST that is accepted,     *)
(* every live connection that is open and not write-only, the originator    *)
(* included, receives exactly one DRAW_BROADCAST with its x, y, r, g, b and *)
(* no other connection receives one; the originator receives exactly one    *)
(* DRAW_RESULT, with the success code and the request id, and no other      *)
(* connection receives a DRAW_RESULT; and no step ever delivers a           *)
(* DRAW_BROADCAST or a RATE_SAMPLE to a write-only connection.              *)
C5_Broadcast ==
    [][/\ (/\ Handled
           /\ inbox.m \in Single(DrawFrames)
           /\ sockets[inbox.c].readyState = "OPEN"
           /\ paintCount' = paintCount + 1)
          => LET c == inbox.c
                 f == inbox.m.frames[1]
             IN \A s \in Slots :
                  /\ framesOf(sent'[s], OP_BROADCAST)
                        = IF /\ s \in Live
                             /\ sockets[s].readyState = "OPEN"
                             /\ ~sockets[s].writeonly
                          THEN << drawFrame(f.x, f.y, f.r, f.g, f.b) >>
                          ELSE << >>
                  /\ framesOf(sent'[s], OP_RESULT)
                        = IF s = c THEN << resultFrame(f.id, RES_SUCCESS) >> ELSE << >>
       /\ \A s \in Live :
             sockets[s].writeonly
             => /\ framesOf(sent'[s], OP_BROADCAST) = << >>
                /\ framesOf(sent'[s], OP_RATE) = << >>]_vars

\* A bidirectional, a read-only and a write-only client are open; the draw of
\* the first has reached the first two and not the third
C5_Witness ==
    /\ inbox.done /\ inbox.m = Msg(<< D1 >>, 0, {})
    /\ ~sockets[inbox.c].readonly /\ ~sockets[inbox.c].writeonly
    /\ sent[inbox.c] = << drawFrame(D1.x, D1.y, D1.r, D1.g, D1.b),
                          resultFrame(D1.id, RES_SUCCESS) >>
    /\ \E a, b \in Live :
          /\ sockets[a].readonly /\ sockets[a].readyState = "OPEN"
          /\ sent[a] = << drawFrame(D1.x, D1.y, D1.r, D1.g, D1.b) >>
          /\ sockets[b].writeonly /\ sockets[b].readyState = "OPEN"
          /\ sent[b] = << >>

\* The handler run on the first n frames of the message being dispatched
prefixRun(n) ==
    onMessage(handlerState, clients, inbox.c,
              encodeMessage(SubSeq(inbox.m.frames, 1, n), 0), 0, now, clockBit31,
              inbox.m.fails, 1)

\* The opcodes a client may send: HEARTBEAT_ACK, DRAW_REQUEST, TIMED_DRAW_REQUEST
InboundOpcodes == {251, 254, 240}

\* The frames of fs before the first one with an unknown opcode
knownPrefix(fs) ==
    Cardinality({k \in 1..Len(fs) : \A j \in 1..k : fs[j].op \in InboundOpcodes})

(* C6: a message holding a frame with an opcode other than 0xfb, 0xfe and   *)
(* 0xF0 leaves the raster, the paint counter and the frames delivered to    *)
(* every connection as the frames before that frame left them, and leaves   *)
(* its connection closed: with the protocol-violation code when those       *)
(* frames had left it open.                                                 *)
C6_UnknownOpcode ==
    [][(/\ Handled
        /\ knownPrefix(inbox.m.frames) < Len(inbox.m.frames)
        /\ inbox.m.cut = 0 \/ knownPrefix(inbox.m.frames) + 1 < Len(inbox.m.frames))
       => LET c == inbox.c
              Hp == prefixRun(knownPrefix(inbox.m.frames))
          IN /\ paintBoard' = Hp.pb
             /\ sent' = Hp.out
             /\ paintCount' = Hp.pc
             /\ ~crashed'
             /\ sockets'[c].readyState # "OPEN"
             /\ sockets'[c].uidCooldown = Hp.ws[c].uidCooldown
             /\ Hp.ws[c].readyState = "OPEN" => sockets'[c].closeCode = CLOSE_PROTOCOL]_vars

\* An unknown opcode followed by a valid draw arrived on an open connection
\* while another was open: the first is closing, nothing was painted or sent
C6_Witness ==
    /\ inbox.done /\ inbox.m = Msg(<< BadFrame, D1 >>, 0, {})
    /\ sockets[inbox.c].readyState = "CLOSING"
    /\ sockets[inbox.c].closeCode = CLOSE_PROTOCOL
    /\ \E o \in Live \ {inbox.c} : sockets[o].readyState = "OPEN" /\ ~sockets[o].writeonly
    /\ sent = NoFrames
    /\ paintBoard = InitBoard

\* The payload bytes of the last frame of the message that are left after the cut
lastPayload(m) == Len(encodeFrame(m.frames[Len(m.frames)])) - 1 - m.cut

(* C7: a message whose last frame is a DRAW_REQUEST with fewer than 29      *)
(* payload bytes, or a TIMED_DRAW_REQUEST with fewer than 14, leaves its    *)
(* connection closed, and leaves the raster, the connection's cooldown map, *)
(* the paint counter and the frames delivered to every connection as the    *)
(* frames before it left them.                                              *)
C7_Truncated ==
    [][(/\ Handled
        /\ inbox.m.frames # << >>
        /\ lastPayload(inbox.m) >= 0
        /\ \/ inbox.m.frames[Len(inbox.m.frames)].op = 254 /\ lastPayload(inbox.m) < 29
           \/ inbox.m.frames[Len(inbox.m.frames)].op = 240 /\ lastPayload(inbox.m) < 14)
       => LET c == inbox.c
              Hp == prefixRun(Len(inbox.m.frames) - 1)
          IN /\ sockets'[c].readyState # "OPEN"
             /\ ~crashed'
             /\ paintBoard' = Hp.pb
             /\ sockets'[c].uidCooldown = Hp.ws[c].uidCooldown
             /\ paintCount' = Hp.pc
             /\ sent' = Hp.out]_vars

\* A draw and then a draw two bytes short arrived on an open connection: the
\* first was painted and answered, the second closed the connection
C7_Witness ==
    /\ inbox.done /\ inbox.m = Msg(<< D1, D1 >>, 2, {})
    /\ sockets[inbox.c].readyState = "CLOSING"
    /\ sockets[inbox.c].closeCode = CLOSE_PROTOCOL
    /\ sent[inbox.c] = << drawFrame(D1.x, D1.y, D1.r, D1.g, D1.b),
                          resultFrame(D1.id, RES_SUCCESS) >>
    /\ sockets[inbox.c].uidCooldown[1] = now

\* The DRAW_RESULT frames that refuse request id
refusals(id) == {resultFrame(id, code) :
                    code \in {RES_OUT_OF_BOUNDS, RES_COOLDOWN, RES_LOOKUP_FAILED}}

\* The handler run on the message being dispatched without its first frame
restRun ==
    onMessage(handlerState, clients, inbox.c,
              encodeMessage(Tail(inbox.m.frames), 0), 0, now, clockBit31, {}, 1)

(* C8: when the first frame of a message is a DRAW_REQUEST that is refused  *)
(* (out of bounds, cooldown, lookup failure), its DRAW_RESULT goes to the   *)
(* originator alone, the connection is not closed by it, and the raster,    *)
(* the frames delivered and the state of the connection are what the rest   *)
(* of the message would have produced without that frame.                   *)
C8_RejectedDrawSkipped ==
    [][(/\ Handled
        /\ inbox.m.frames # << >> /\ inbox.m.cut = 0
        /\ inbox.m.frames[1].op = OP_DRAW
        /\ sockets[inbox.c].readyState = "OPEN"
        /\ sent'[inbox.c] # << >>
        /\ sent'[inbox.c][1] \in refusals(inbox.m.frames[1].id))
       => LET c == inbox.c
              Hr == restRun
          IN /\ paintBoard' = Hr.pb
             /\ sent'[c] = << sent'[c][1] >> \o Hr.out[c]
             /\ \A s \in Slots \ {c} : sent'[s] = Hr.out[s]
             /\ sockets'[c].readyState = Hr.ws[c].readyState]_vars

(* C9: the frames of one connection processed in one 1-second window are    *)
(* never more than packetsPerSecond: the DRAW_RESULT frames one handler run *)
(* sends to a connection, each answering a frame it parsed and checked at   *)
(* that instant, are at most packetsPerSecond.                              *)
C9_RateCeiling ==
    \A c \in Slots : Len(framesOf(sent[c], OP_RESULT)) <= packetsPerSecond

\* The DRAW_RESULT frames of a sequence that carry the success code
successes(fs) == SelectSeq(fs, LAMBDA f : f[1] = OP_RESULT /\ f[6] = RES_SUCCESS)

(* C10: the paint counter grows by exactly the draws a message had          *)
(* accepted (those answered with the success code), so by nothing for a     *)
(* TIMED_DRAW_REQUEST, a HEARTBEAT_ACK or a refused draw; the sample timer  *)
(* sends one RATE_SAMPLE carrying the counter to every open connection that *)
(* is not write-only and to no other, and leaves the counter at zero.       *)
C10_RateSample ==
    [][/\ (Handled /\ sockets[inbox.c].readyState = "OPEN")
          => paintCount' - paintCount = Len(successes(sent'[inbox.c]))
       /\ rateTimer' # rateTimer
          => /\ paintCount' = 0
             /\ \A s \in Slots :
                   sent'[s] = IF /\ s \in Live
                                 /\ sockets[s].readyState = "OPEN"
                                 /\ ~sockets[s].writeonly
                              THEN << rateFrame(paintCount) >>
                              ELSE << >>]_vars

\* The live connections from ip whose flags satisfy the test of a counter
flagged(ip, test(_)) == {s \in Live : sockets[s].ip = ip /\ test(sockets[s])}

isRw(meta) == ~meta.readonly /\ ~meta.writeonly
isRo(meta) == meta.readonly
isWo(meta) == meta.writeonly

(* C11: after any sequence of upgrades, handshake outcomes and closes,      *)
(* every counter of every address is the number of live connections from    *)
(* that address that it counts (so it is never negative), and an upgrade    *)
(* that never becomes a connection leaves no count behind.                  *)
C11_CountersMatchLive ==
    \A ip \in IPs :
        /\ getCounts(ipConnCounts, ip).rw = Cardinality(flagged(ip, isRw))
        /\ getCounts(ipConnCounts, ip).ro = Cardinality(flagged(ip, isRo))
        /\ getCounts(ipConnCounts, ip).wo = Cardinality(flagged(ip, isWo))

\* The sum of the three counters of an address in a counter map
countSum(m, ip) == getCounts(m, ip).rw + getCounts(m, ip).ro + getCounts(m, ip).wo

(* C12: a connection that is admitted has at most one of the read-only and  *)
(* write-only flags and adds one to exactly one counter of its address; a   *)
(* connection that closes takes one from exactly one counter.               *)
C12_OneClass ==
    [][/\ \A s \in DOMAIN sockets' \ DOMAIN sockets :
             /\ ~(sockets'[s].readonly /\ sockets'[s].writeonly)
             /\ countSum(ipConnCounts', sockets'[s].ip)
                   = countSum(ipConnCounts, sockets'[s].ip) + 1
       /\ \A s \in DOMAIN sockets \ DOMAIN sockets' :
             countSum(ipConnCounts', sockets[s].ip)
                = countSum(ipConnCounts, sockets[s].ip) - 1]_vars

\* An echo of the TIMED_DRAW_REQUEST bytes buf: 20 bytes, the opcode, then id
\* and client timestamp, any server timestamp, then x, y, r, g, b as received
isEchoOf(e, buf) ==
    /\ Len(e) = 20
    /\ e[1] = 240
    /\ SubSeq(e, 2, 9) = SubSeq(buf, 2, 9)
    /\ SubSeq(e, 14, 20) = SubSeq(buf, 10, 16)

(* C13: a message that is one complete TIMED_DRAW_REQUEST leaves the raster *)
(* and the cooldown map of its connection as they were and delivers exactly *)
(* one frame, the 20-byte echo of the request, to every live connection     *)
(* that is open and not write-only, and nothing to any other: so no         *)
(* DRAW_BROADCAST and no DRAW_RESULT.                                       *)
C13_TimedEcho ==
    [][(/\ Handled
        /\ inbox.m = Msg(<< TimedReq >>, 0, {})
        /\ sockets[inbox.c].readyState = "OPEN")
       => /\ paintBoard' = paintBoard
          /\ sockets'[inbox.c].uidCooldown = sockets[inbox.c].uidCooldown
          /\ \A s \in Slots :
                IF s \in Live /\ sockets[s].readyState = "OPEN" /\ ~sockets[s].writeonly
                THEN /\ Len(sent'[s]) = 1
                     /\ isEchoOf(sent'[s][1], encodeMessage(inbox.m.frames, 0))
                ELSE sent'[s] = << >>]_vars

\* The handler run on the message being dispatched when no token lookup throws
storeFreeRun ==
    onMessage(handlerState, clients, inbox.c,
              encodeMessage(inbox.m.frames, inbox.m.cut), 0, now, clockBit31, {}, 1)

(* C14: with token.check off the outcome of a message does not depend on    *)
(* the token store: whether or not a lookup throws, the raster, the frames  *)
(* delivered and the cooldown map are those of the run in which no lookup   *)
(* throws, and no lookup-failure DRAW_RESULT is sent.                       *)
C14_StoreNotConsulted ==
    [][(Handled /\ ~check)
       => /\ paintBoard' = storeFreeRun.pb
          /\ sent' = storeFreeRun.out
          /\ sockets'[inbox.c].uidCooldown = storeFreeRun.ws[inbox.c].uidCooldown
          /\ \A s \in Slots : \A i \in 1..Len(sent'[s]) :
                ~(sent'[s][i][1] = OP_RESULT /\ sent'[s][i][6] = RES_LOOKUP_FAILED)]_vars

(***************************************************************************)
(* setPixel on its own: calls with every coordinate of the board and one    *)
(* past each edge, and the extreme values of each channel, applied to the   *)
(* board left by the calls before.                                          *)
(***************************************************************************)
Colours == {0, 255}

PaintPixel(x, y, r, g, b) ==
    /\ Idle
    /\ paintBoard' = setPixel(paintBoard, x, y, r, g, b)
    /\ UNCHANGED << check, clockBit31, now, tokens, ipConnCounts, clients, sockets,
                    paintCount, rateTimer, sent, crashed, inbox >>

NextPixel ==
    \E x \in 0..WIDTH, y \in 0..HEIGHT, r \in Colours, g \in Colours, b \in Colours :
        PaintPixel(x, y, r, g, b)

SpecPixel == InitDefault /\ [][NextPixel]_vars

\* Channel values the property is evaluated for
Channel == {0, 1, 127, 128, 255}

\* setPixel(x, y, r, g, b) on the current board returns true, writes r, g, b
\* at (y*W+x)*channels and the two bytes after it, and nothing else
paintsExactly(x, y, r, g, b) ==
    LET pb == setPixel(paintBoard, x, y, r, g, b)
        idx == (y * WIDTH + x) * CHANNELS
    IN /\ setPixelOk(x, y)
       /\ DOMAIN pb = 1..(WIDTH * HEIGHT * CHANNELS)
       /\ pb[idx + 1] = r /\ pb[idx + 2] = g /\ pb[idx + 3] = b
       /\ \A i \in DOMAIN paintBoard \ {idx + 1, idx + 2, idx + 3} : pb[i] = paintBoard[i]

(* C15: the raster starts with every byte 0xff, and on every board that     *)
(* calls of setPixel can leave, for every x, y with 0 <= x < W and          *)
(* 0 <= y < H and every r, g, b, setPixel returns true and writes r, g, b   *)
(* at offsets (y*W+x)*channels, +1, +2, leaving every other byte unchanged. *)
C15_SetPixel ==
    /\ \A i \in 1..(WIDTH * HEIGHT * CHANNELS) : paintBoard[i] = 255
    /\ [](\A x \in 0..(WIDTH - 1), y \in 0..(HEIGHT - 1) :
             \A r \in Channel, g \in Channel, b \in Channel :
                 paintsExactly(x, y, r, g, b))

\* Calls have painted (1, 0) and (0, 1) in different colours; (0, 0) is still white
C15_Witness ==
    /\ pixelAt(paintBoard, 1, 0) = << 255, 0, 0 >>
    /\ pixelAt(paintBoard, 0, 1) = << 0, 0, 255 >>
    /\ pixelAt(paintBoard, 0, 0) = << 255, 255, 255 >>
    /\ sockets = << >>

\* The last frame of the message being dispatched
lastFrame == inbox.m.frames[Len(inbox.m.frames)]

(* C16: a complete DRAW_REQUEST with x >= W or y >= H at the end of a       *)
(* message leaves the raster and the paint counter as the frames before it  *)
(* left them and adds no DRAW_BROADCAST for any connection; when it is      *)
(* reached on an open connection below the rate ceiling, its lookup does    *)
(* not throw and its identity is not cooling down, the one frame it adds is *)
(* the DRAW_RESULT with the out-of-bounds code for its originator.          *)
C16_OutOfBounds ==
    [][(/\ Handled
        /\ inbox.m.frames # << >> /\ inbox.m.cut = 0
        /\ lastFrame.op = 254
        /\ lastFrame.x >= WIDTH \/ lastFrame.y >= HEIGHT)
       => LET c == inbox.c
              f == lastFrame
              Hp == prefixRun(Len(inbox.m.frames) - 1)
              cd == Hp.ws[c].uidCooldown
          IN /\ paintBoard' = Hp.pb
             /\ paintCount' = Hp.pc
             /\ \A s \in Slots :
                   framesOf(sent'[s], OP_BROADCAST) = framesOf(Hp.out[s], OP_BROADCAST)
             /\ (/\ Hp.ws[c].readyState = "OPEN"
                 /\ ~rateExceeded(Hp.ws[c].packets, now)
                 /\ Len(inbox.m.frames) \notin inbox.m.fails
                 /\ ~(f.uid \in DOMAIN cd /\ now - cd[f.uid] < cooldownMs))
                => /\ sent'[c] = Append(Hp.out[c], resultFrame(f.id, 236))
                   /\ \A s \in Slots \ {c} : sent'[s] = Hp.out[s]
                   /\ sockets'[c].readyState = "OPEN"]_vars

\* A draw at x = WIDTH arrived on an open connection while another that
\* listens was open: it was answered out-of-bounds, nothing painted or sent on
C16_Witness ==
    /\ inbox.done /\ inbox.m = Msg(<< OutX >>, 0, {})
    /\ sent[inbox.c] = << resultFrame(OutX.id, 236) >>
    /\ \E o \in Live \ {inbox.c} :
          sockets[o].readyState = "OPEN" /\ ~sockets[o].writeonly /\ sent[o] = << >>
    /\ paintBoard = InitBoard
    /\ paintCount = 0

(* C17: a heartbeat tick of an open connection either closes it with the    *)
(* 'Ping timeout' code and delivers no HEARTBEAT_PING, or delivers one      *)
(* HEARTBEAT_PING, leaves it open and makes the time of the send the        *)
(* reference of the next test, never both and never neither; and a          *)
(* connection whose last HEARTBEAT_PING was answered by a HEARTBEAT_ACK     *)
(* before the tick is not closed by it.                                     *)
C17_HeartbeatTick ==
    [][\A c \in Slots :
         (HeartbeatTick(c) /\ sockets[c].readyState = "OPEN")
         => LET closed == /\ sockets'[c].readyState # "OPEN"
                          /\ sockets'[c].closeCode = CLOSE_GOING_AWAY
                          /\ sent'[c] = << >>
                pinged == /\ sockets'[c].readyState = "OPEN"
                          /\ sent'[c] = << << 252 >> >>
                          /\ sockets'[c].lastPing = now
            IN /\ closed \/ pinged
               /\ ~(closed /\ pinged)
               /\ sockets[c].lastPong >= sockets[c].lastPing => ~closed]_vars

\* The frames of a sequence, as a set
frameSet(fs) == {fs[i] : i \in 1..Len(fs)}

(* C18: the cooldown map of a connection changes for an identity only when  *)
(* a DRAW_REQUEST of that identity is accepted: a message leaves the entry  *)
(* of every identity as it was unless one of its frames with that identity  *)
(* is answered with the success code, and then the entry is the time of     *)
(* that draw.                                                               *)
C18_CooldownOnlyAccepted ==
    [][(Handled /\ sockets[inbox.c].readyState = "OPEN")
       => \A u \in UIDs :
            LET before == lastTimeOf(sockets[inbox.c].uidCooldown, u)
                after == lastTimeOf(sockets'[inbox.c].uidCooldown, u)
                accepted ==
                    \E k \in 1..Len(inbox.m.frames) :
                        /\ inbox.m.frames[k].op = OP_DRAW
                        /\ inbox.m.frames[k].uid = u
                        /\ resultFrame(inbox.m.frames[k].id, RES_SUCCESS)
                              \in frameSet(sent'[inbox.c])
            IN IF accepted THEN after = now ELSE after = before]_vars

\* The DRAW_REQUEST frames of the message being dispatched that pass the rate
\* check and the length check: the rate check lets through what the window
\* still has room for, the length check a last frame with 29 payload bytes
checkedDraws ==
    LET c == inbox.c
        m == inbox.m
        room == packetsPerSecond + 1 - Len(prunePackets(sockets[c].packets, now))
        whole == IF lastPayload(m) >= 29 THEN Len(m.frames) ELSE Len(m.frames) - 1
    IN IF room <= 0 THEN 0 ELSE Min(room, whole)

\* The codes of a DRAW_RESULT
ResultCodes == {239, 238, 237, 236}

\* What n answered requests deliver: to a connection that gets the broadcasts
\* (draws), the DRAW_BROADCAST of each request res answers with success; to
\* the originator (results), after it, the DRAW_RESULT
RECURSIVE answered(_, _, _, _, _)
answered(fs, res, n, draws, results) ==
    IF n = 0 THEN << >>
    ELSE answered(fs, res, n - 1, draws, results)
         \o (IF draws /\ res[n][6] = 239
             THEN << drawFrame(fs[n].x, fs[n].y, fs[n].r, fs[n].g, fs[n].b) >>
             ELSE << >>)
         \o (IF results THEN << res[n] >> ELSE << >>)

(* C19: a message of DRAW_REQUEST frames on an open connection is answered  *)
(* frame by frame in order: each request that passes the rate and length    *)
(* checks gets exactly one DRAW_RESULT carrying its id, the results are in  *)
(* the order of the requests, every connection that receives broadcasts     *)
(* gets a DRAW_BROADCAST exactly for the requests answered with success,    *)
(* and the originator gets it right before that success result.             *)
C19_OneResultInOrder ==
    [][(/\ Handled
        /\ sockets[inbox.c].readyState = "OPEN"
        /\ inbox.m.frames # << >>
        /\ \A k \in 1..Len(inbox.m.frames) : inbox.m.frames[k].op = OP_DRAW)
       => LET c == inbox.c
              fs == inbox.m.frames
              n == checkedDraws
              res == framesOf(sent'[c], OP_RESULT)
              receivers == eligible(handlerState, clients)
          IN /\ Len(res) = n
             /\ \A i \in 1..Len(res) :
                  i <= n => \E code \in ResultCodes : res[i] = resultFrame(fs[i].id, code)
             /\ Len(res) = n
                  => /\ sent'[c] = answered(fs, res, n, c \in receivers, TRUE)
                     /\ \A s \in Slots \ {c} :
                          sent'[s] = answered(fs, res, n, s \in receivers, FALSE)]_vars

(* C20: a message that arrives from a connection the server has closed      *)
(* leaves the raster and that connection's cooldown map as they were and    *)
(* delivers nothing to any other connection; and a message that makes the   *)
(* server close its connection leaves every other connection, and the       *)
(* per-address counters, as they were.                                      *)
C20_ClosedIsInert ==
    [][Handled
       => LET c == inbox.c
          IN /\ sockets[c].readyState # "OPEN"
                => /\ paintBoard' = paintBoard
                   /\ sockets'[c].uidCooldown = sockets[c].uidCooldown
                   /\ \A s \in Slots \ {c} : sent'[s] = << >>
             /\ (sockets[c].readyState = "OPEN" /\ sockets'[c].readyState # "OPEN")
                => /\ \A s \in Live \ {c} : sockets'[s] = sockets[s]
                   /\ ipConnCounts' = ipConnCounts]_vars

(***************************************************************************)
(* Connections of every class send draws and are pinged by the heartbeat.   *)
(***************************************************************************)
ClassMessages ==
    Single({D1, OutX}) \cup {Msg(<< D1 >>, 0, {1})}

NextClass ==
    \/ Connect({RW, RO, WO}, MaxConns - 1)
    \/ Tick(pingInterval, pingInterval)
    \/ Send(ClassMessages)
    \/ OnMessage
    \/ Transmit
    \/ \E c \in Slots : HeartbeatTick(c)

SpecClass == InitDefault /\ [][NextClass]_vars

\* The sockets with the class flags of connection c cleared: c as a
\* bidirectional connection
asBidirectional(ws, c) ==
    [s \in DOMAIN ws |-> IF s = c THEN [ws[s] EXCEPT !.readonly = FALSE, !.writeonly = FALSE]
                         ELSE ws[s]]

\* The handler run on the message being dispatched, had its connection been
\* bidirectional
bidirectionalRun ==
    onMessage([handlerState EXCEPT !.ws = asBidirectional(sockets, inbox.c)], clients,
              inbox.c, encodeMessage(inbox.m.frames, inbox.m.cut), 0, now, clockBit31,
              inbox.m.fails, 1)

(* C21: a message is processed on a connection of any class as it would be  *)
(* on a bidirectional one: the raster, the paint counter, the state of      *)
(* every connection (cooldown map, rate window, closure), the frames        *)
(* delivered to the other connections and the DRAW_RESULT frames delivered  *)
(* to the originator are the same, and so is everything delivered to an     *)
(* originator that is not write-only; and a heartbeat tick that leaves a    *)
(* connection open delivers one HEARTBEAT_PING to it, whatever its class.   *)
C21_ClassOnlyOutbound ==
    [][/\ Handled
          => LET c == inbox.c
                 Hb == bidirectionalRun
             IN /\ paintBoard' = Hb.pb
                /\ paintCount' = Hb.pc
                /\ crashed' = Hb.threw
                /\ asBidirectional(sockets', c) = Hb.ws
                /\ sockets'[c].readonly = sockets[c].readonly
                /\ sockets'[c].writeonly = sockets[c].writeonly
                /\ \A s \in Slots \ {c} : sent'[s] = Hb.out[s]
                /\ framesOf(sent'[c], OP_RESULT) = framesOf(Hb.out[c], OP_RESULT)
                /\ ~sockets[c].writeonly => sent'[c] = Hb.out[c]
       /\ \A c \in Slots :
            (HeartbeatTick(c) /\ sockets'[c].readyState = "OPEN")
            => sent'[c] = << << OP_PING >> >>]_vars

\* A write-only connection that the heartbeat has pinged got the success
\* result of its own draw and no broadcast, while a read-only connection
\* that had drawn before it got the broadcast
C21_Witness ==
    /\ inbox.done /\ inbox.m = Msg(<< D1 >>, 0, {})
    /\ sockets[inbox.c].writeonly /\ ~sockets[inbox.c].readonly
    /\ sockets[inbox.c].readyState = "OPEN"
    /\ sockets[inbox.c].lastPing > sockets[inbox.c].lastPong
    /\ sent[inbox.c] = << resultFrame(D1.id, RES_SUCCESS) >>
    /\ pixelAt(paintBoard, D1.x, D1.y) = << D1.r, D1.g, D1.b >>
    /\ \E o \in Live \ {inbox.c} :
         /\ sockets[o].readonly /\ ~sockets[o].writeonly
         /\ lastTimeOf(sockets[o].uidCooldown, 1) = StartTime
         /\ sent[o] = << drawFrame(D1.x, D1.y, D1.r, D1.g, D1.b) >>

=============================================================================
